---- MODULE Spec2Model ----
(***************************************************************************)
(* Model of rle-decode-helper (src/src/lib.rs): rle_decode and the         *)
(* append_from_within primitive it is built on.                            *)
(*                                                                         *)
(* usize is scaled down to the range 0..UsizeMax; arithmetic on it either  *)
(* panics (a build with overflow checks, the default of debug builds) or   *)
(* wraps modulo UsizeMax + 1 (a build without them, the default of         *)
(* release builds).  The element type T is generic: a one-byte type, whose *)
(* Vec holds at most isize::MAX elements, or a zero-sized type, whose Vec  *)
(* has capacity usize::MAX and never allocates.                            *)
(***************************************************************************)
EXTENDS Integers, Sequences, FiniteSets, TLC

\* ---------------------------------------------------------------- bounds

\* Width of usize in bits, scaled down.
UsizeBits == 4

\* Longest buffer of a sized element type the caller hands in.
MaxBufLen == 4

\* The spare capacity (capacity - len) a buffer may start with, and the
\* extra capacity a growing reserve() may add beyond what was asked for.
MaxSpare == 1

\* ----------------------------------------------------- integers and Vec<T>

RECURSIVE Pow2(_)
Pow2(k) == IF k = 0 THEN 1 ELSE 2 * Pow2(k - 1)

\* usize is 0..2^w - 1 and isize::MAX is 2^(w-1) - 1.
Modulus == Pow2(UsizeBits)

UsizeMax == Modulus - 1

IsizeMax == Pow2(UsizeBits - 1) - 1

Usize == 0..UsizeMax

\* Values of a sized element type; a zero-sized type has the one value 0.
Elem == {0, 1}

Min(a, b) == IF a <= b THEN a ELSE b

\* Result of a failed checked_* operation and of a diverging helper.
None == -1

\* Most elements a Vec<T> can hold: isize::MAX bytes, or usize::MAX
\* elements of a zero-sized type.
CapMax(z) == IF z THEN UsizeMax ELSE IsizeMax

\* Sequences over S of length 0..n.
SeqUpTo(S, n) == UNION {[1..k -> S] : k \in 0..n}

\* The panic messages.
NoErr == "none"
ErrZeroRepeat == "attempt to repeat fragment of size 0"
ErrFragmentTooLarge == "attempt to repeat fragment larger than buffer size"
ErrCapacityOverflow == "capacity overflow"
ErrIndexOverflow == "attempted to index vec up to maximum usize"
ErrSrcOrder == "src end is before src start"
ErrSrcBounds == "src is out of bounds"
ErrAddOverflow == "attempt to add with overflow"
ErrSubOverflow == "attempt to subtract with overflow"
ErrMulOverflow == "attempt to multiply with overflow"

\* usize::checked_sub and usize::checked_add.
checked_sub_wrapping(a, b) == (a - b) % Modulus

checked_sub(a, b) == IF b > a THEN None ELSE a - b

checked_add(a, b) == IF a + b > UsizeMax THEN None ELSE a + b

\* A plain +, - or * on usize whose exact result is n: whether it leaves
\* the type, and the value a build without overflow checks continues with.
Overflows(n) == n < 0 \/ n > UsizeMax

Wrap(n) == n % Modulus

\* Vec::reserve(additional) on a Vec of length len and capacity cap: the
\* set of capacities it may leave; the empty set is the panic
\* "capacity overflow".  Does nothing when the capacity suffices.
reserve(len, cap, additional, z) ==
    IF cap - len >= additional THEN {cap}
    ELSE IF z \/ len + additional > CapMax(z) THEN {}
    ELSE {len + additional, Min(CapMax(z), len + additional + MaxSpare)}

\* ptr::copy_nonoverlapping(seif.get_unchecked(src_start),
\* seif.get_unchecked_mut(vec_len), count): the count elements written
\* behind the length, read one by one from index src_start (0-based) on.
copy_nonoverlapping_first(seif, src_start, count) ==
    [i \in 1..count |-> seif[src_start + 1]]

copy_nonoverlapping(seif, src_start, count) ==
    [i \in 1..count |-> seif[src_start + i]]

\* ------------------------------------------------------ append_from_within

\* The range a..b of ops::Range: an included start, an excluded end.
Range(a, b) == [start |-> [kind |-> "Included", n |-> a],
                end   |-> [kind |-> "Excluded", n |-> b]]

src_start_of(src) ==
    CASE src.start.kind = "Included" -> src.start.n
      [] src.start.kind = "Excluded" -> checked_add(src.start.n, 1)
      [] OTHER -> 0

src_end_of(seif, src) ==
    CASE src.end.kind = "Included" -> checked_add(src.end.n, 1)
      [] src.end.kind = "Excluded" -> src.end.n
      [] OTHER -> Len(seif)

Outcome(buf, cap, e) == [buffer |-> buf, capacity |-> cap, err |-> e]

\* The outcomes of append_from_within(seif, src) on a Vec of capacity cap.
append_from_within(seif, cap, z, src) ==
    LET src_start == src_start_of(src)
        src_end == src_end_of(seif, src)
    IN  IF src_start = None \/ src_end = None
            THEN {Outcome(seif, cap, ErrIndexOverflow)}
        ELSE IF ~(src_start <= src_end)
            THEN {Outcome(seif, cap, ErrSrcOrder)}
        ELSE IF ~(src_end <= Len(seif))
            THEN {Outcome(seif, cap, ErrSrcBounds)}
        ELSE LET count == src_end - src_start
                 caps == reserve(Len(seif), cap, count, z)
                 vec_len == Len(seif)
             IN  IF caps = {}
                     THEN {Outcome(seif, cap, ErrCapacityOverflow)}
                 ELSE {Outcome(seif \o copy_nonoverlapping(seif, src_start, count),
                               c, NoErr) : c \in caps}

\* -------------------------------------------------------------- rle_decode

\* if lookbehind_length == 0 {zero_repeat_fail()}
IsZeroRepeatNever(lookbehind) == FALSE

IsZeroRepeat(lookbehind) == lookbehind = 0

\* buffer.reserve(fill_length): the amount reserved up front.
ReserveRequestFirstCopy(lookbehind, fill) == Min(lookbehind, fill)

ReserveRequestNothing(lookbehind, fill) == 0

ReserveRequest(lookbehind, fill) == fill

\* while fill_length > 0
LoopConditionGe(fill) == fill >= 0

LoopCondition(fill) == fill > 0

\* let fill_size = cmp::min(lookbehind_length, fill_length)
FillSizeWhole(lookbehind, fill) == fill

FillSize(lookbehind, fill) == Min(lookbehind, fill)

\* lookbehind_length *= 2, before the overflow check or the wrap.
DoubledFixed(lookbehind) == lookbehind

Doubled(lookbehind) == lookbehind * 2

VARIABLES
    buffer,               \* the Vec's elements, indices [0, len)
    capacity,             \* the Vec's capacity
    zst,                  \* T is a zero-sized type
    overflow_checks,      \* the build panics on arithmetic overflow
    lookbehind_length,    \* the mutable parameter
    fill_length,          \* the mutable parameter
    copy_fragment_start,  \* the local of rle_decode
    pc,                   \* "idle", "loop", "done" (returned), "panic"
    err,                  \* the panic message
    old_buffer,           \* history: the buffer at call start
    old_capacity,         \* history: the capacity at call start
    arg_lookbehind,       \* history: lookbehind_length as passed
    arg_fill,             \* history: fill_length as passed
    calls,                \* history: append_from_within calls made
    loop_reallocs,        \* history: capacity changes made inside the loop
    overflowed            \* history: first arithmetic that left usize

vars == <<buffer, capacity, zst, overflow_checks, lookbehind_length,
          fill_length, copy_fragment_start, pc, err, old_buffer,
          old_capacity, arg_lookbehind, arg_fill, calls, loop_reallocs,
          overflowed>>

history == <<old_buffer, old_capacity, arg_lookbehind, arg_fill>>

\* The caller's buffer: any Vec of a sized or of a zero-sized element type.
Init ==
    /\ zst \in BOOLEAN
    /\ overflow_checks \in BOOLEAN
    /\ buffer \in IF zst THEN {[i \in 1..k |-> 0] : k \in 0..UsizeMax}
                         ELSE SeqUpTo(Elem, MaxBufLen)
    /\ capacity \in IF zst THEN {UsizeMax}
                           ELSE {Len(buffer), Min(IsizeMax, Len(buffer) + MaxSpare)}
    /\ lookbehind_length = 0
    /\ fill_length = 0
    /\ copy_fragment_start = 0
    /\ pc = "idle"
    /\ err = NoErr
    /\ old_buffer = buffer
    /\ old_capacity = capacity
    /\ arg_lookbehind = 0
    /\ arg_fill = 0
    /\ calls = 0
    /\ loop_reallocs = 0
    /\ overflowed = NoErr

Panic(msg) ==
    /\ pc' = "panic"
    /\ err' = msg

\* rle_decode(buffer, L, F) up to the loop: the two checks and the
\* up-front reservation.
rle_decode ==
    /\ pc = "idle"
    /\ \E L \in Usize, F \in Usize :
        /\ arg_lookbehind' = L
        /\ arg_fill' = F
        /\ lookbehind_length' = L
        /\ fill_length' = F
        /\ UNCHANGED <<buffer, zst, overflow_checks, old_buffer, old_capacity,
                       calls, loop_reallocs, overflowed>>
        /\ IF IsZeroRepeat(L)
             THEN /\ Panic(ErrZeroRepeat)
                  /\ UNCHANGED <<capacity, copy_fragment_start>>
           ELSE IF checked_sub(Len(buffer), L) = None
             THEN /\ Panic(ErrFragmentTooLarge)
                  /\ UNCHANGED <<capacity, copy_fragment_start>>
           ELSE LET caps == reserve(Len(buffer), capacity,
                                    ReserveRequest(L, F), zst)
                IN  /\ copy_fragment_start' = checked_sub(Len(buffer), L)
                    /\ IF caps = {}
                         THEN /\ Panic(ErrCapacityOverflow)
                              /\ UNCHANGED capacity
                       ELSE /\ capacity' \in caps
                            /\ pc' = "loop"
                            /\ err' = NoErr

\* One iteration of the loop, the append_from_within call included.
LoopIteration ==
    /\ pc = "loop"
    /\ LoopCondition(fill_length)
    /\ LET fill_size == FillSize(lookbehind_length, fill_length)
           end_exact == copy_fragment_start + fill_size
           rest_exact == fill_length - fill_size
           next_exact == Doubled(lookbehind_length)
       IN
       IF Overflows(end_exact) /\ overflow_checks
         THEN /\ Panic(ErrAddOverflow)
              /\ overflowed' = ErrAddOverflow
              /\ UNCHANGED <<buffer, capacity, lookbehind_length, fill_length,
                             calls, loop_reallocs>>
       ELSE \E r \in append_from_within(buffer, capacity, zst,
                        Range(copy_fragment_start, Wrap(end_exact))) :
            LET first == IF Overflows(end_exact) THEN ErrAddOverflow
                         ELSE IF Overflows(rest_exact) THEN ErrSubOverflow
                         ELSE IF Overflows(next_exact) THEN ErrMulOverflow
                         ELSE NoErr
            IN
            /\ calls' = calls + 1
            /\ buffer' = r.buffer
            /\ capacity' = r.capacity
            /\ loop_reallocs' = loop_reallocs
                                + (IF r.capacity # capacity THEN 1 ELSE 0)
            /\ IF r.err # NoErr
                 THEN /\ Panic(r.err)
                      /\ overflowed' = IF Overflows(end_exact)
                                       THEN ErrAddOverflow ELSE overflowed
                      /\ UNCHANGED <<lookbehind_length, fill_length>>
               ELSE IF Overflows(rest_exact) /\ overflow_checks
                 THEN /\ Panic(ErrSubOverflow)
                      /\ overflowed' = first
                      /\ UNCHANGED <<lookbehind_length, fill_length>>
               ELSE IF Overflows(next_exact) /\ overflow_checks
                 THEN /\ Panic(ErrMulOverflow)
                      /\ overflowed' = first
                      /\ fill_length' = Wrap(rest_exact)
                      /\ UNCHANGED lookbehind_length
               ELSE /\ fill_length' = Wrap(rest_exact)
                    /\ lookbehind_length' = Wrap(next_exact)
                    /\ overflowed' = IF overflowed # NoErr THEN overflowed
                                     ELSE first
                    /\ UNCHANGED <<pc, err>>
    /\ UNCHANGED <<zst, overflow_checks, copy_fragment_start, history>>

\* The loop condition fails and rle_decode returns.
LoopExit ==
    /\ pc = "loop"
    /\ ~LoopCondition(fill_length)
    /\ pc' = "done"
    /\ UNCHANGED <<buffer, capacity, zst, overflow_checks, lookbehind_length,
                   fill_length, copy_fragment_start, err, calls,
                   loop_reallocs, overflowed, history>>

Next == rle_decode \/ LoopIteration \/ LoopExit

Spec == Init /\ [][Next]_vars

\* The call runs to its end: nothing suspends or cancels it.
FairSpec == Spec /\ WF_vars(Next)

\* ------------------------------------------------------------- properties

OldLen == Len(old_buffer)

Called == pc # "idle"

Terminated == pc \in {"done", "panic"}

\* The call's preconditions: a non-zero lookbehind no longer than the
\* buffer, and a total length the Vec can have.
ValidCall ==
    /\ Called
    /\ 1 <= arg_lookbehind
    /\ arg_lookbehind <= OldLen
    /\ OldLen + arg_fill <= CapMax(zst)

\* The reference: append one lookbehind window at a time, never doubling.
RECURSIVE NaiveReference(_, _, _, _)
NaiveReference(b, start, L, remaining) ==
    IF remaining = 0 THEN b
    ELSE LET n == Min(L, remaining)
         IN  NaiveReference(b \o SubSeq(old_buffer, start + 1, start + n),
                            start, L, remaining - n)

\* The least k >= 0 with L * (2^k - 1) >= F, searched from k upward.
RECURSIVE LeastKFrom(_, _, _)
LeastKFrom(L, F, k) ==
    IF L * (Pow2(k) - 1) >= F THEN k ELSE LeastKFrom(L, F, k + 1)

\* C1: when rle_decode returns, the buffer is old_len + F long, element
\* old_len + i is the old element old_len - L + (i mod L) for every i < F,
\* and the whole buffer is what the naive one-window-at-a-time reference
\* produces.
C1_PeriodCorrect ==
    (ValidCall /\ Terminated) =>
        /\ Len(buffer) = OldLen + arg_fill
        /\ \A i \in 0..(arg_fill - 1) :
               buffer[OldLen + i + 1] =
                   old_buffer[OldLen - arg_lookbehind + (i % arg_lookbehind) + 1]
        /\ buffer = NaiveReference(old_buffer, OldLen - arg_lookbehind,
                                   arg_lookbehind, arg_fill)

\* A returned call on a sized buffer whose window holds two different
\* values, filled by at least two appends, the last one a partial window.
C1_Witness ==
    /\ pc = "done"
    /\ ~zst
    /\ arg_lookbehind >= 2
    /\ old_buffer[OldLen] # old_buffer[OldLen - 1]
    /\ calls >= 2
    /\ arg_fill % arg_lookbehind # 0

\* C2: with a valid L and F = 0 the call does not panic, never calls
\* append_from_within and leaves the buffer (length, elements, capacity)
\* as it was.
C2_ZeroFillNoOp ==
    (Called /\ 1 <= arg_lookbehind /\ arg_lookbehind <= OldLen /\ arg_fill = 0)
        => /\ pc \in {"loop", "done"}
           /\ buffer = old_buffer
           /\ capacity = old_capacity
           /\ calls = 0

C2_Witness ==
    /\ pc = "done"
    /\ arg_fill = 0
    /\ arg_lookbehind >= 1
    /\ OldLen >= 2
    /\ buffer = old_buffer

\* C3: with L = 0 the call panics with the zero-fragment message and no
\* other, whatever the buffer (the empty one included) and F (0 and an
\* overflowing F included), and the buffer is untouched.
C3_ZeroLookbehindFails ==
    (Called /\ arg_lookbehind = 0)
        => /\ pc = "panic"
           /\ err = ErrZeroRepeat
           /\ buffer = old_buffer
           /\ capacity = old_capacity

\* L = 0 on the empty buffer, and L = 0 with an F that overflows the length.
C3_Witness ==
    /\ pc = "panic"
    /\ arg_lookbehind = 0
    /\ err = ErrZeroRepeat
    /\ \/ OldLen = 0
       \/ OldLen + arg_fill > UsizeMax

\* C4: with L > len the call panics with the fragment-larger-than-buffer
\* message, whatever F, before the buffer is touched.
C4_LookbehindExceedsBufferFails ==
    (Called /\ arg_lookbehind > OldLen)
        => /\ pc = "panic"
           /\ err = ErrFragmentTooLarge
           /\ buffer = old_buffer
           /\ capacity = old_capacity
           /\ calls = 0

\* L > len together with an F that would also overflow the length.
C4_Witness ==
    /\ pc = "panic"
    /\ err = ErrFragmentTooLarge
    /\ arg_lookbehind > OldLen
    /\ OldLen >= 1
    /\ OldLen + arg_fill > UsizeMax

\* C5: with a valid L and len + F beyond what the Vec can hold, the call
\* panics with the overflow message of the up-front reservation, before any
\* append_from_within call, and the buffer is as it was at call start.
C5_OverflowDetected ==
    (Called /\ 1 <= arg_lookbehind /\ arg_lookbehind <= OldLen
            /\ OldLen + arg_fill > CapMax(zst))
        => /\ pc = "panic"
           /\ err = ErrCapacityOverflow
           /\ buffer = old_buffer
           /\ capacity = old_capacity
           /\ calls = 0

C5_Witness ==
    /\ pc = "panic"
    /\ err = ErrCapacityOverflow
    /\ ~zst
    /\ 1 <= arg_lookbehind
    /\ arg_lookbehind <= OldLen
    /\ OldLen + arg_fill > UsizeMax
    /\ buffer = old_buffer

\* C6: as the rustdoc says, the call panics whenever L >= len, L = len
\* included.
C6_PanicsWhenLookbehindGeLen ==
    (Called /\ arg_lookbehind >= OldLen) => pc = "panic"

\* C7: every valid call ends, and when it has ended it has made exactly
\* the least k with L * (2^k - 1) >= F calls of append_from_within.
C7_LogarithmicCalls ==
    /\ [](ValidCall /\ Terminated
            => calls = LeastKFrom(arg_lookbehind, arg_fill, 0))
    /\ [](ValidCall => <>Terminated)

\* A returned call that a fixed window would have filled in 5 or more
\* appends and the doubling one filled in 3.
C7_Witness ==
    /\ pc = "done"
    /\ ValidCall
    /\ calls = 3
    /\ arg_fill >= 5 * arg_lookbehind

\* C8: at the start of every iteration of a valid call the doubled
\* lookbehind_length is len - copy_fragment_start and the requested range
\* satisfies start <= start + fill_size <= len without leaving usize, so
\* source [start, end) lies in the initialized part, below the destination
\* [len, len + count); and no assertion of the primitive ever fires.
C8_RangeInBounds ==
    /\ err \notin {ErrSrcOrder, ErrSrcBounds, ErrIndexOverflow}
    /\ (pc = "loop" /\ LoopCondition(fill_length)) =>
           LET fill_size == FillSize(lookbehind_length, fill_length)
           IN  /\ lookbehind_length = Len(buffer) - copy_fragment_start
               /\ fill_size >= 1
               /\ copy_fragment_start <= copy_fragment_start + fill_size
               /\ copy_fragment_start + fill_size <= Len(buffer)
               /\ copy_fragment_start + fill_size <= UsizeMax

\* The second or a later iteration is about to start and its source range
\* reaches into what the call itself appended.
C8_Witness ==
    /\ pc = "loop"
    /\ LoopCondition(fill_length)
    /\ calls >= 1
    /\ copy_fragment_start + FillSize(lookbehind_length, fill_length) > OldLen

\* C9: from the up-front reservation to the return, len + remaining fill
\* fits the capacity and the capacity never changes: the only capacity
\* change of a call is the up-front one.
C9_NoReallocInLoop ==
    /\ loop_reallocs = 0
    /\ pc \in {"loop", "done"} => Len(buffer) + fill_length <= capacity

\* A sized buffer that the up-front reservation had to grow, two appends in.
C9_Witness ==
    /\ pc = "loop"
    /\ ~zst
    /\ capacity > old_capacity
    /\ calls >= 2
    /\ fill_length > 0

\* C10: in a valid call no arithmetic of the loop leaves usize.
C10_NoArithmeticOverflow ==
    ValidCall => overflowed = NoErr

====
